---------------------------- MODULE Spec2Model ----------------------------
(***************************************************************************)
(* go-aws-eks-get-token: the EKS exec-credential cache and token issuer.   *)
(*                                                                         *)
(* The repository holds two builds of the same command: src/main.go (the   *)
(* flag-package build, cache file named after profile and cluster) and     *)
(* src/cmd_eks.go (the cobra build, cache file named after the cluster     *)
(* only).  The variable  build  says which one is running.                 *)
(*                                                                         *)
(* Strings are sequences of characters, files are sequences of cells, the  *)
(* presigned URL is a sequence of bytes and the token is its real base64   *)
(* encoding.  Time is counted in ticks, TicksPerSecond ticks to a second,  *)
(* so that the loss of the sub-second part in time.Format is visible.      *)
(***************************************************************************)
EXTENDS Integers, Sequences, FiniteSets, TLC

(***************************************************************************)
(* Bounds of the model.                                                    *)
(***************************************************************************)
NumProcs == 2
\* invocations started in one behaviour
MaxRuns == 2
\* clock advances in one behaviour that watches the clock
MaxTicks == 3
\* clock advances in any other behaviour
FewTicks == 1
\* resolution of the clock
TicksPerSecond == 2
\* longest session token the credential provider hands out, in bytes
MaxCredLen == 2

(***************************************************************************)
(* Program constants.                                                      *)
(***************************************************************************)
\* maxTokenDuration = 900 * time.Second
maxTokenDuration == 900
\* cacheExpiryPadding = 30 * time.Second
cacheExpiryPadding == 30

Procs == 1 .. NumProcs

\* the identifiers the invocations are given; "-" is the separator the
\* file name is built with
ProfileSeq == << <<"a">>, <<"a", "-", "b">> >>
ClusterSeq == << <<"c">>, <<"b", "-", "c">> >>
Profiles == { ProfileSeq[i] : i \in 1 .. Len(ProfileSeq) }
Clusters == { ClusterSeq[i] : i \in 1 .. Len(ClusterSeq) }
Regions == { <<"r">> }
\* the empty string
NoString == << >>
\* what stands for the header value in a request without x-k8s-aws-id
NoHeader == << "(no header)" >>

\* the byte an identifier leaves in the signed URL (the access key of the
\* profile's credentials, the signature over the x-k8s-aws-id header)
ProfileByte(profile) ==
  IF profile = NoString THEN 0
  ELSE CHOOSE i \in 1 .. Len(ProfileSeq) : ProfileSeq[i] = profile
ClusterByte(cluster) ==
  IF cluster = NoString THEN 0
  ELSE IF cluster = NoHeader THEN 255
  ELSE CHOOSE i \in 1 .. Len(ClusterSeq) : ClusterSeq[i] = cluster

(***************************************************************************)
(* encodeBase64Url: base64.RawURLEncoding, three bytes to four sextets,    *)
(* no padding.                                                             *)
(***************************************************************************)
RECURSIVE EncodeToString(_)
EncodeToString(b) ==
  IF Len(b) = 0 THEN << >>
  ELSE IF Len(b) = 1 THEN << b[1] \div 4, (b[1] % 4) * 16 >>
  ELSE IF Len(b) = 2 THEN
    << b[1] \div 4, (b[1] % 4) * 16 + b[2] \div 16, (b[2] % 16) * 4 >>
  ELSE
    << b[1] \div 4, (b[1] % 4) * 16 + b[2] \div 16,
       (b[2] % 16) * 4 + b[3] \div 64, b[3] % 64 >>
    \o EncodeToString(SubSeq(b, 4, Len(b)))

\* mutant of encodeBase64Url: base64.URLEncoding, which pads the digits to a
\* multiple of four with "=" (written 64)
encodeBase64UrlPadded(s) ==
  LET d == EncodeToString(s)
  IN  d \o [i \in 1 .. ((4 - (Len(d) % 4)) % 4) |-> 64]

encodeBase64Url(s) == EncodeToString(s)

\* base64.RawURLEncoding.DecodeString, what the token's consumer does
RECURSIVE DecodeString(_)
DecodeString(d) ==
  IF Len(d) <= 1 THEN << >>
  ELSE IF Len(d) = 2 THEN << d[1] * 4 + d[2] \div 16 >>
  ELSE IF Len(d) = 3 THEN
    << d[1] * 4 + d[2] \div 16, (d[2] % 16) * 16 + d[3] \div 4 >>
  ELSE
    << d[1] * 4 + d[2] \div 16, (d[2] % 16) * 16 + d[3] \div 4,
       (d[3] % 4) * 64 + d[4] >>
    \o DecodeString(SubSeq(d, 5, Len(d)))

(***************************************************************************)
(* Time.  A time is a number of ticks; a formatted timestamp is a string   *)
(* in some layout, and RFC3339 keeps whole seconds only.                   *)
(***************************************************************************)
\* time.Time.Add(d) for a duration of d seconds
Add(t, d) == t + d * TicksPerSecond

\* mutant of Format: the sub-second part is rounded up
FormatRoundUp(t) ==
  [layout |-> "RFC3339", sec |-> (t + TicksPerSecond - 1) \div TicksPerSecond]

\* time.Time.UTC().Format(time.RFC3339): the sub-second part is dropped
Format(t) == [layout |-> "RFC3339", sec |-> t \div TicksPerSecond]

\* the zero value of a string field that holds a timestamp
NoTimestamp == [layout |-> "", sec |-> 0]

\* time.Parse(time.RFC3339, s)
Parse(s) ==
  IF s.layout = "RFC3339"
  THEN [err |-> FALSE, t |-> s.sec * TicksPerSecond]
  ELSE [err |-> TRUE, t |-> 0]

\* time.Until(t) read at time  clock
Until(t, clock) == t - clock

(***************************************************************************)
(* The signing capability: eksPresigner.PresignHTTP sets X-Amz-Expires     *)
(* and has the v4 signer presign the request.  The URL carries the signing *)
(* time at second precision (X-Amz-Date), the validity (X-Amz-Expires),    *)
(* the credentials (X-Amz-Credential, X-Amz-Security-Token) and the        *)
(* signature, which covers the x-k8s-aws-id header.                        *)
(***************************************************************************)
SessionTokens == { [i \in 1 .. n |-> 7] : n \in 1 .. MaxCredLen }

\* the AddEKSHeader build middleware: the header is added when the request
\* is a *smithyhttp.Request, and the request is passed on either way
AddEKSHeader(isHTTPRequest, cluster) ==
  IF isHTTPRequest THEN cluster ELSE NoHeader

PresignHTTP(expires, profile, sessionToken, header, signingTime) ==
  LET date == signingTime \div TicksPerSecond
  IN  << date \div 256, date % 256, expires \div 256, expires % 256,
         ProfileByte(profile), ClusterByte(header) >> \o sessionToken

\* the fields a verifier reads back from the URL
URLDate(url) == url[1] * 256 + url[2]
URLExpires(url) == url[3] * 256 + url[4]
URLProfile(url) == IF url[5] = 0 THEN NoString ELSE ProfileSeq[url[5]]
URLCluster(url) ==
  IF url[6] = 0 THEN NoString
  ELSE IF url[6] = 255 THEN NoHeader
  ELSE ClusterSeq[url[6]]

(***************************************************************************)
(* ExecCredential and its JSON form.  A file is a sequence of cells; a     *)
(* token is the prefix cell followed by one cell per base64 digit.         *)
(***************************************************************************)
Cell(k, s, n) == [k |-> k, s |-> s, n |-> n]

TokenPrefix == "k8s-aws-v1."

\* "k8s-aws-v1." + encodeBase64Url(urlStr)
Token(url) ==
  LET d == encodeBase64Url(url)
  IN  << Cell("chr", TokenPrefix, 0) >> \o [i \in 1 .. Len(d) |-> Cell("chr", "", d[i])]

ExecCredential(apiVersion, kind, expiry, token) ==
  [APIVersion |-> apiVersion, Kind |-> kind,
   ExpirationTimestamp |-> expiry, Token |-> token]

\* json.MarshalIndent(cred, "", "  ")
MarshalIndent(cred) ==
  << Cell("{", "", 0),
     Cell("apiVersion", cred.APIVersion, 0),
     Cell("kind", cred.Kind, 0),
     Cell("expirationTimestamp", cred.ExpirationTimestamp.layout,
          cred.ExpirationTimestamp.sec),
     Cell("token", "", 0) >>
  \o cred.Token \o << Cell("}", "", 0) >>

FieldKeys == {"apiVersion", "kind", "expirationTimestamp", "token"}

\* whether  data  is one JSON object and nothing else
ValidJSON(data) ==
  /\ Len(data) >= 2
  /\ data[1].k = "{"
  /\ data[Len(data)].k = "}"
  /\ \A i \in 2 .. Len(data) - 1 :
        \/ data[i].k \in FieldKeys
        \/ data[i].k = "chr" /\ data[i - 1].k \in {"token", "chr"}

\* the index of the field  key  in  data, 0 when it is missing
FieldAt(data, key) ==
  IF \E i \in 1 .. Len(data) : data[i].k = key
  THEN CHOOSE i \in 1 .. Len(data) :
         /\ data[i].k = key
         /\ \A j \in 1 .. Len(data) : data[j].k = key => i <= j
  ELSE 0

\* the characters of the string that follows the token key
RECURSIVE CharsFrom(_, _)
CharsFrom(data, i) ==
  IF i <= Len(data) /\ data[i].k = "chr"
  THEN << data[i] >> \o CharsFrom(data, i + 1)
  ELSE << >>

\* json.Unmarshal(data, &cred): a missing field keeps its zero value
Unmarshal(data) ==
  IF ~ValidJSON(data)
  THEN [err |-> TRUE, cred |-> ExecCredential("", "", NoTimestamp, << >>)]
  ELSE
    LET a == FieldAt(data, "apiVersion")
        k == FieldAt(data, "kind")
        e == FieldAt(data, "expirationTimestamp")
        t == FieldAt(data, "token")
    IN  [err |-> FALSE,
         cred |-> ExecCredential(
           IF a = 0 THEN "" ELSE data[a].s,
           IF k = 0 THEN "" ELSE data[k].s,
           IF e = 0 THEN NoTimestamp ELSE [layout |-> data[e].s, sec |-> data[e].n],
           IF t = 0 THEN << >> ELSE CharsFrom(data, t + 1))]

\* the signed URL inside a token, as the cluster decodes it
TokenURL(token) ==
  DecodeString([i \in 1 .. Len(token) - 1 |-> token[i + 1].n])

(***************************************************************************)
(* The cache file's path.                                                  *)
(***************************************************************************)
CacheDirPath == << "~/.kube/cache", "/" >>

\* filepath.Join(cacheDir, fmt.Sprintf("eks-token-%s-%s.json", profile, cluster))
kubeCacheFilePath(profile, cluster) ==
  CacheDirPath \o << "eks-token-" >> \o profile \o << "-" >> \o cluster \o << ".json" >>

\* filepath.Join(cacheDir, fmt.Sprintf("eks-token-%s.json", cluster))
kubeCacheFilePathCluster(cluster) ==
  CacheDirPath \o << "eks-token-" >> \o cluster \o << ".json" >>

Builds == {"main.go", "cmd_eks.go"}

\* the path an invocation of build  b  computes
CachePathOf(b, profile, cluster) ==
  IF b = "main.go" THEN kubeCacheFilePath(profile, cluster)
  ELSE kubeCacheFilePathCluster(cluster)

\* every path an invocation can compute (the cobra build accepts an empty
\* --cluster-name)
Paths ==
  { CachePathOf(b, p, c) : b \in Builds, p \in Profiles, c \in Clusters \cup {NoString} }

(***************************************************************************)
(* Files.  The mode decides what the invoking user may do with the file.   *)
(***************************************************************************)
Modes == {"0600", "0644", "0400", "0200"}
CanRead(mode) == mode \in {"0600", "0644", "0400"}
CanWrite(mode) == mode \in {"0600", "0644", "0200"}

NoFile == [exists |-> FALSE, mode |-> "", data |-> << >>]
File(mode, data) == [exists |-> TRUE, mode |-> mode, data |-> data]

\* os.ReadFile(path)
ReadFile(f) ==
  IF f.exists /\ CanRead(f.mode)
  THEN [err |-> FALSE, data |-> f.data]
  ELSE [err |-> TRUE, data |-> << >>]

\* mutants of StillValid: the margin itself taken as valid; no margin
StillValidAtMargin(expiry, clock) ==
  Until(expiry, clock) >= cacheExpiryPadding * TicksPerSecond

StillValidNoPadding(expiry, clock) == Until(expiry, clock) > 0

\* time.Until(expiry) > cacheExpiryPadding
StillValid(expiry, clock) ==
  Until(expiry, clock) > cacheExpiryPadding * TicksPerSecond

\* tryReadValidCache(path), read at time  clock; why  names the return taken
tryReadValidCache(f, clock) ==
  LET r == ReadFile(f)
      u == Unmarshal(r.data)
      e == Parse(u.cred.ExpirationTimestamp)
  IN  IF r.err THEN [ok |-> FALSE, data |-> << >>, why |-> "read"]
      ELSE IF u.err THEN [ok |-> FALSE, data |-> << >>, why |-> "unmarshal"]
      ELSE IF e.err THEN [ok |-> FALSE, data |-> << >>, why |-> "parse"]
      ELSE IF StillValid(e.t, clock) THEN [ok |-> TRUE, data |-> r.data, why |-> "valid"]
      ELSE [ok |-> FALSE, data |-> << >>, why |-> "expired"]

(***************************************************************************)
(* Files an invocation can find in place of its cache file: written by     *)
(* something else, or damaged.                                             *)
(***************************************************************************)
\* a timestamp in a layout time.Parse(time.RFC3339, .) rejects
OtherLayout == [layout |-> "unix", sec |-> 0]

ForeignFiles ==
  { << >>,
    << Cell("garbage", "", 0) >>,
    MarshalIndent(ExecCredential("client.authentication.k8s.io/v1beta1",
                                 "ExecCredential", OtherLayout, << >>)),
    << Cell("{", "", 0),
       Cell("expirationTimestamp", "RFC3339", maxTokenDuration - cacheExpiryPadding),
       Cell("}", "", 0) >> }

\* such a file as the owner's, and a damaged file in every mode
FoundFiles ==
  { File("0600", d) : d \in ForeignFiles }
    \cup { File(m, << Cell("garbage", "", 0) >>) : m \in Modes }

\* the path at which a behaviour may start with such a file
FoundPath(b) == CachePathOf(b, <<"a">>, <<"b", "-", "c">>)

(***************************************************************************)
(* Command lines.  A flag is unset, or set to a value that may be empty.   *)
(***************************************************************************)
Flag(set, val) == [set |-> set, val |-> val]
Unset == Flag(FALSE, NoString)

Argv(syntax, region, cluster, output, profile) ==
  [syntax |-> syntax, region |-> region, cluster |-> cluster,
   output |-> output, profile |-> profile]

NoArgv == Argv("", Unset, Unset, "", NoString)

\* complete command lines, and command lines with one thing wrong
GoodArgvs ==
  { Argv("ok", Flag(TRUE, r), Flag(TRUE, c), "json", p) :
      r \in Regions, c \in Clusters, p \in Profiles }

BadArgvs ==
  LET r == Flag(TRUE, <<"r">>)
      c == Flag(TRUE, <<"c">>)
      p == <<"a">>
  IN  { Argv("no-subcommand", r, c, "json", p),
        Argv("bad-flag", r, c, "json", p),
        Argv("ok", Unset, c, "json", p),
        Argv("ok", Flag(TRUE, NoString), c, "json", p),
        Argv("ok", r, Unset, "json", p),
        Argv("ok", r, Flag(TRUE, NoString), "json", p),
        Argv("ok", r, c, "yaml", p),
        Argv("ok", r, c, "json", NoString) }

Argvs == GoodArgvs \cup BadArgvs

(***************************************************************************)
(* State.                                                                  *)
(***************************************************************************)
VARIABLES
  build,      \* which build of the command is installed
  now,        \* the wall clock, in ticks
  ticks,      \* clock advances left
  runs,       \* invocations started so far
  cacheDir,   \* ~/.kube/cache: "absent", "present" or "blocked"
  files,      \* the cache files, by path
  stored,     \* by path, the expiry (in seconds) of the artifact persisted
              \* there in full and not overwritten since, -1 when none
  pc,         \* where each invocation is
  argv,       \* its command line and AWS_PROFILE
  cachePath,  \* its cachePath
  creds,      \* the session token of the credentials it resolved
  url,        \* presignResult.URL
  out,        \* the marshalled ExecCredential
  stdout,     \* what it has printed
  exitCode,   \* its exit code, -1 while it runs
  trace       \* what it has done: history the properties read

vars ==
  << build, now, ticks, runs, cacheDir, files, stored, pc, argv, cachePath, creds,
     url, out, stdout, exitCode, trace >>

NoTrace ==
  [why |-> "", readAt |-> 0, observed |-> [err |-> TRUE, data |-> << >>],
   kept |-> -1, torn |-> FALSE, configLoads |-> 0, presigns |-> 0, signedAt |-> 0,
   issuedAt |-> 0, prev |-> NoFile, written |-> << >>, after |-> << >>,
   exitAt |-> "", mkdirs |-> 0, seen |-> NoFile]

\* the state before the first invocation: the installed build, the cache
\* directory, at most one file found in it, and the clock advances to come
Begin(dirs, found, advances) ==
  /\ build \in Builds
  /\ now = 0
  /\ ticks = advances
  /\ runs = 0
  /\ cacheDir \in dirs
  /\ stored = [q \in Paths |-> -1]
  /\ \/ files = [q \in Paths |-> NoFile]
     \/ /\ cacheDir = "present"
        /\ \E f \in found :
             files = [x \in Paths |-> IF x = FoundPath(build) THEN f ELSE NoFile]
  /\ pc = [p \in Procs |-> "idle"]
  /\ argv = [p \in Procs |-> NoArgv]
  /\ cachePath = [p \in Procs |-> NoString]
  /\ creds = [p \in Procs |-> << >>]
  /\ url = [p \in Procs |-> << >>]
  /\ out = [p \in Procs |-> << >>]
  /\ stdout = [p \in Procs |-> << >>]
  /\ exitCode = [p \in Procs |-> -1]
  /\ trace = [p \in Procs |-> NoTrace]

\* any environment
Init == Begin({"absent", "present", "blocked"}, FoundFiles, FewTicks)

\* an environment with nothing in the way, and time to watch the clock
InitClock == Begin({"present"}, {}, MaxTicks)

\* any cache directory, with a damaged file that may be written or not
InitLive ==
  Begin({"absent", "present", "blocked"},
        {File(m, << Cell("garbage", "", 0) >>) : m \in {"0600", "0400"}}, 0)

\* an environment with nothing in the way but a damaged file
InitPar == Begin({"present"}, {File("0600", << Cell("garbage", "", 0) >>)}, 0)

(***************************************************************************)
(* One invocation, step by step.  A step is what the invocation does       *)
(* between two looks at what it shares with others: the clock and the      *)
(* file system.                                                            *)
(***************************************************************************)
\* os.Exit(code), or the return from main
\* mutant of Exit: the process ends with code 0 whatever happened
ExitZero(p, code, at) ==
  /\ pc' = [pc EXCEPT ![p] = "exit"]
  /\ exitCode' = [exitCode EXCEPT ![p] = 0]
  /\ trace' = [trace EXCEPT ![p].exitAt = at]

Exit(p, code, at) ==
  /\ pc' = [pc EXCEPT ![p] = "exit"]
  /\ exitCode' = [exitCode EXCEPT ![p] = code]
  /\ trace' = [trace EXCEPT ![p].exitAt = at]

\* main.go 39-76: the first check of the command line that fails, "" if none
ArgsErrorMain(a) ==
  IF a.region.val = NoString THEN "region"
  ELSE IF a.syntax = "no-subcommand" THEN "subcommand"
  ELSE IF a.syntax = "bad-flag" THEN "parse"
  ELSE IF a.output # "json" THEN "output"
  ELSE IF a.cluster.val = NoString THEN "cluster"
  ELSE IF a.profile = NoString THEN "profile"
  ELSE ""

\* cmd_eks.go 56-75: cobra refuses a flag it cannot parse and a required
\* flag that is not set; runGetToken checks the output format and the profile
ArgsErrorCobra(a) ==
  IF a.syntax = "bad-flag" THEN "parse"
  ELSE IF ~a.region.set \/ ~a.cluster.set THEN "required"
  ELSE IF a.output # "json" THEN "output"
  ELSE IF a.profile = NoString THEN "profile"
  ELSE ""

\* mutant of ArgsError: the profile is not checked
ArgsErrorNoProfile(b, a) ==
  LET e == IF b = "main.go" THEN ArgsErrorMain(a) ELSE ArgsErrorCobra(a)
  IN  IF e = "profile" THEN "" ELSE e

ArgsError(b, a) == IF b = "main.go" THEN ArgsErrorMain(a) ELSE ArgsErrorCobra(a)

\* flag.ExitOnError exits with 2, every other error with 1
ArgsExitCode(b, e) == IF b = "main.go" /\ e = "parse" THEN 2 ELSE 1

\* main 39-76 / cobra and runGetToken 67-75
Start(p) ==
  /\ pc[p] = "idle"
  /\ runs < MaxRuns
  /\ runs' = runs + 1
  /\ \E a \in Argvs :
       /\ build = "cmd_eks.go" => a.syntax # "no-subcommand"
       /\ argv' = [argv EXCEPT ![p] = a]
       /\ IF ArgsError(build, a) = ""
          THEN /\ pc' = [pc EXCEPT ![p] = "kubeCacheFilePath"]
               /\ UNCHANGED << exitCode, trace >>
          ELSE Exit(p, ArgsExitCode(build, ArgsError(build, a)), "args")
  /\ UNCHANGED << build, now, ticks, cacheDir, files, stored, cachePath, creds,
                  url, out, stdout >>

\* kubeCacheFilePath: user.Current, os.MkdirAll(cacheDir, 0700), the path
KubeCacheFilePath(p) ==
  /\ pc[p] = "kubeCacheFilePath"
  /\ \E userOk \in BOOLEAN :
       IF ~userOk
       THEN /\ Exit(p, 1, "kubeCacheFilePath")
            /\ UNCHANGED << cacheDir, cachePath >>
       ELSE IF cacheDir = "blocked"
       THEN /\ pc' = [pc EXCEPT ![p] = "exit"]
            /\ exitCode' = [exitCode EXCEPT ![p] = 1]
            /\ trace' = [trace EXCEPT ![p].exitAt = "kubeCacheFilePath",
                                      ![p].mkdirs = @ + 1]
            /\ UNCHANGED << cacheDir, cachePath >>
       ELSE /\ cacheDir' = "present"
            /\ cachePath' = [cachePath EXCEPT ![p] =
                 CachePathOf(build, argv[p].profile, argv[p].cluster.val)]
            /\ pc' = [pc EXCEPT ![p] = "tryReadValidCache"]
            /\ trace' = [trace EXCEPT ![p].mkdirs = @ + 1]
            /\ UNCHANGED exitCode
  /\ UNCHANGED << build, now, ticks, runs, files, stored, argv, creds, url, out,
                  stdout >>

\* mutant of Println: nothing is printed
PrintNothing(printed, data) == printed

\* fmt.Println(string(cred)): one more artifact on standard output
Println(printed, data) == Append(printed, data)

\* whether what a reader got is neither what the file held before the writer
\* w opened it nor what w is writing
Torn(w, path, got) ==
  /\ pc[w] = "Write"
  /\ cachePath[w] = path
  /\ got # ReadFile(trace[w].prev)
  /\ got # ReadFile(File(files[path].mode, out[w]))

\* mutant of TryReadValidCache: a file that cannot be read or parsed is an
\* error of the invocation
TryReadValidCacheStrict(p) ==
  /\ pc[p] = "tryReadValidCache"
  /\ LET f == files[cachePath[p]]
         r == tryReadValidCache(f, now)
         t == [trace[p] EXCEPT
                 !.why = r.why, !.readAt = now, !.observed = ReadFile(f),
                 !.kept = stored[cachePath[p]], !.seen = f]
     IN  IF r.ok
         THEN /\ stdout' = [stdout EXCEPT ![p] = Println(stdout[p], r.data)]
              /\ pc' = [pc EXCEPT ![p] = "exit"]
              /\ exitCode' = [exitCode EXCEPT ![p] = 0]
              /\ trace' = [trace EXCEPT ![p] = [t EXCEPT !.exitAt = "hit"]]
         ELSE IF r.why = "expired"
         THEN /\ pc' = [pc EXCEPT ![p] = "LoadDefaultConfig"]
              /\ trace' = [trace EXCEPT ![p] = t]
              /\ UNCHANGED << stdout, exitCode >>
         ELSE /\ pc' = [pc EXCEPT ![p] = "exit"]
              /\ exitCode' = [exitCode EXCEPT ![p] = 1]
              /\ trace' = [trace EXCEPT ![p] = [t EXCEPT !.exitAt = "tryReadValidCache"]]
              /\ UNCHANGED stdout
  /\ UNCHANGED << build, now, ticks, runs, cacheDir, files, stored, argv,
                  cachePath, creds, url, out >>

\* main 84-88 / runGetToken 82-86: the cache check, and the hit
\* mutant of TryReadValidCache: a cached artifact is used up, the file is
\* removed once its content has been printed
TryReadValidCacheConsume(p) ==
  /\ pc[p] = "tryReadValidCache"
  /\ LET f == files[cachePath[p]]
         r == tryReadValidCache(f, now)
         t == [trace[p] EXCEPT
                 !.why = r.why, !.readAt = now, !.observed = ReadFile(f),
                 !.kept = stored[cachePath[p]], !.seen = f,
                 !.torn = \E w \in Procs \ {p} : Torn(w, cachePath[p], ReadFile(f))]
     IN  IF r.ok
         THEN /\ stdout' = [stdout EXCEPT ![p] = Println(stdout[p], r.data)]
              /\ files' = [files EXCEPT ![cachePath[p]] = NoFile]
              /\ stored' = [stored EXCEPT ![cachePath[p]] = -1]
              /\ pc' = [pc EXCEPT ![p] = "exit"]
              /\ exitCode' = [exitCode EXCEPT ![p] = 0]
              /\ trace' = [trace EXCEPT ![p] = [t EXCEPT !.exitAt = "hit"]]
         ELSE /\ pc' = [pc EXCEPT ![p] = "LoadDefaultConfig"]
              /\ trace' = [trace EXCEPT ![p] = t]
              /\ UNCHANGED << stdout, exitCode, files, stored >>
  /\ UNCHANGED << build, now, ticks, runs, cacheDir, argv, cachePath, creds,
                  url, out >>

TryReadValidCache(p) ==
  /\ pc[p] = "tryReadValidCache"
  /\ LET f == files[cachePath[p]]
         r == tryReadValidCache(f, now)
         t == [trace[p] EXCEPT
                 !.why = r.why, !.readAt = now, !.observed = ReadFile(f),
                 !.kept = stored[cachePath[p]], !.seen = f,
                 !.torn = \E w \in Procs \ {p} : Torn(w, cachePath[p], ReadFile(f))]
     IN  IF r.ok
         THEN /\ stdout' = [stdout EXCEPT ![p] = Println(stdout[p], r.data)]
              /\ pc' = [pc EXCEPT ![p] = "exit"]
              /\ exitCode' = [exitCode EXCEPT ![p] = 0]
              /\ trace' = [trace EXCEPT ![p] = [t EXCEPT !.exitAt = "hit"]]
         ELSE /\ pc' = [pc EXCEPT ![p] = "LoadDefaultConfig"]
              /\ trace' = [trace EXCEPT ![p] = t]
              /\ UNCHANGED << stdout, exitCode >>
  /\ UNCHANGED << build, now, ticks, runs, cacheDir, files, stored, argv,
                  cachePath, creds, url, out >>

\* main 93-101 / runGetToken 90-97: config.LoadDefaultConfig
LoadDefaultConfig(p) ==
  /\ pc[p] = "LoadDefaultConfig"
  /\ \E ok \in BOOLEAN :
       IF ok
       THEN /\ pc' = [pc EXCEPT ![p] = "Presign"]
            /\ trace' = [trace EXCEPT ![p].configLoads = @ + 1]
            /\ UNCHANGED exitCode
       ELSE /\ pc' = [pc EXCEPT ![p] = "exit"]
            /\ exitCode' = [exitCode EXCEPT ![p] = 1]
            /\ trace' = [trace EXCEPT ![p].configLoads = @ + 1,
                                      ![p].exitAt = "LoadDefaultConfig"]
  /\ UNCHANGED << build, now, ticks, runs, cacheDir, files, stored, argv,
                  cachePath, creds, url, out, stdout >>

\* mutant of Presign: a failed signing call is tried once more
PresignRetry(p) ==
  /\ pc[p] = "Presign"
  /\ \E ok \in BOOLEAN, tok \in SessionTokens, isHTTPRequest \in BOOLEAN :
       IF ok
       THEN /\ creds' = [creds EXCEPT ![p] = tok]
            /\ url' = [url EXCEPT ![p] =
                 PresignHTTP(maxTokenDuration, argv[p].profile, tok,
                             AddEKSHeader(isHTTPRequest, argv[p].cluster.val), now)]
            /\ pc' = [pc EXCEPT ![p] = "Marshal"]
            /\ trace' = [trace EXCEPT ![p].presigns = @ + 1, ![p].signedAt = now]
            /\ UNCHANGED exitCode
       ELSE IF trace[p].presigns = 0
       THEN /\ trace' = [trace EXCEPT ![p].presigns = @ + 1]
            /\ UNCHANGED << pc, exitCode, creds, url >>
       ELSE /\ pc' = [pc EXCEPT ![p] = "exit"]
            /\ exitCode' = [exitCode EXCEPT ![p] = 1]
            /\ trace' = [trace EXCEPT ![p].presigns = @ + 1, ![p].exitAt = "Presign"]
            /\ UNCHANGED << creds, url >>
  /\ UNCHANGED << build, now, ticks, runs, cacheDir, files, stored, argv,
                  cachePath, out, stdout >>

\* main 103-141 / runGetToken 99-131: presignClient.PresignGetCallerIdentity
\* with the AddEKSHeader middleware; the credentials are resolved here, the
\* signing time is the clock as the SDK reads it, and the middleware finds
\* the request to be a *smithyhttp.Request or not
Presign(p) ==
  /\ pc[p] = "Presign"
  /\ \E ok \in BOOLEAN, tok \in SessionTokens, isHTTPRequest \in BOOLEAN :
       IF ok
       THEN /\ creds' = [creds EXCEPT ![p] = tok]
            /\ url' = [url EXCEPT ![p] =
                 PresignHTTP(maxTokenDuration, argv[p].profile, tok,
                             AddEKSHeader(isHTTPRequest, argv[p].cluster.val), now)]
            /\ pc' = [pc EXCEPT ![p] = "Marshal"]
            /\ trace' = [trace EXCEPT ![p].presigns = @ + 1, ![p].signedAt = now]
            /\ UNCHANGED exitCode
       ELSE /\ pc' = [pc EXCEPT ![p] = "exit"]
            /\ exitCode' = [exitCode EXCEPT ![p] = 1]
            /\ trace' = [trace EXCEPT ![p].presigns = @ + 1, ![p].exitAt = "Presign"]
            /\ UNCHANGED << creds, url >>
  /\ UNCHANGED << build, now, ticks, runs, cacheDir, files, stored, argv,
                  cachePath, out, stdout >>

\* main 143-153 / runGetToken 133-141: the credential, built at time  clock
NewCredential(signed, clock) ==
  ExecCredential("client.authentication.k8s.io/v1beta1", "ExecCredential",
                 Format(Add(clock, maxTokenDuration)), Token(signed))

\* mutant of Marshal: the artifact goes to standard output unwritten
MarshalSkipPersist(p) ==
  /\ pc[p] = "Marshal"
  /\ out' = [out EXCEPT ![p] = MarshalIndent(NewCredential(url[p], now))]
  /\ trace' = [trace EXCEPT ![p].issuedAt = now]
  /\ pc' = [pc EXCEPT ![p] = "Println"]
  /\ UNCHANGED << build, now, ticks, runs, cacheDir, files, stored, argv,
                  cachePath, creds, url, stdout, exitCode >>

\* main 143-160 / runGetToken 133-147: time.Now(), json.MarshalIndent
Marshal(p) ==
  /\ pc[p] = "Marshal"
  /\ out' = [out EXCEPT ![p] = MarshalIndent(NewCredential(url[p], now))]
  /\ trace' = [trace EXCEPT ![p].issuedAt = now]
  /\ pc' = [pc EXCEPT ![p] = "OpenFile"]
  /\ UNCHANGED << build, now, ticks, runs, cacheDir, files, stored, argv,
                  cachePath, creds, url, stdout, exitCode >>

\* os.WriteFile, its os.OpenFile(name, O_WRONLY|O_CREATE|O_TRUNC, perm): a
\* missing file is created with perm, an existing one keeps its mode and is
\* cut to length 0 when the user may write it
OpenFile(f, perm) ==
  IF ~f.exists THEN [err |-> FALSE, file |-> File(perm, << >>)]
  ELSE IF CanWrite(f.mode) THEN [err |-> FALSE, file |-> File(f.mode, << >>)]
  ELSE [err |-> TRUE, file |-> f]

\* mutant of WriteAt0: a short write, the last byte is lost
WriteShort(f, data) ==
  File(f.mode, SubSeq(data, 1, Len(data) - 1)
                 \o SubSeq(f.data, Len(data), Len(f.data)))

\* os.WriteFile, its f.Write(data): the bytes go to the start of the file,
\* over whatever is there by now
WriteAt0(f, data) ==
  File(f.mode, data \o SubSeq(f.data, Len(data) + 1, Len(f.data)))

\* main 162-166 / runGetToken 149-152: os.WriteFile(cachePath, out, 0600),
\* the open
Open(p) ==
  /\ pc[p] = "OpenFile"
  /\ LET f == files[cachePath[p]]
         o == OpenFile(f, "0600")
     IN  IF o.err
         THEN /\ Exit(p, 1, "WriteFile")
              /\ UNCHANGED << files, stored >>
         ELSE /\ files' = [files EXCEPT ![cachePath[p]] = o.file]
              /\ stored' = [stored EXCEPT ![cachePath[p]] = -1]
              /\ pc' = [pc EXCEPT ![p] = "Write"]
              /\ trace' = [trace EXCEPT ![p].prev = f]
              /\ UNCHANGED exitCode
  /\ UNCHANGED << build, now, ticks, runs, cacheDir, argv, cachePath, creds,
                  url, out, stdout >>

\* mutant of Write: a failed write is passed over
WriteLenient(p) ==
  /\ pc[p] = "Write"
  /\ \E ok \in BOOLEAN :
       IF ok
       THEN LET g == WriteAt0(files[cachePath[p]], out[p])
            IN  /\ files' = [files EXCEPT ![cachePath[p]] = g]
                /\ trace' = [trace EXCEPT ![p].written = out[p], ![p].after = g.data]
       ELSE UNCHANGED << files, trace >>
  /\ pc' = [pc EXCEPT ![p] = "Println"]
  /\ UNCHANGED << build, now, ticks, runs, cacheDir, stored, argv, cachePath,
                  creds, url, out, stdout, exitCode >>

\* main 162-166 / runGetToken 149-152: os.WriteFile, the write and the
\* close; the write fails when the disk is full
Write(p) ==
  /\ pc[p] = "Write"
  /\ \E ok \in BOOLEAN :
       IF ok
       THEN LET g == WriteAt0(files[cachePath[p]], out[p])
            IN  /\ files' = [files EXCEPT ![cachePath[p]] = g]
                /\ stored' = [stored EXCEPT ![cachePath[p]] =
                     IF g.data = out[p]
                     THEN Unmarshal(out[p]).cred.ExpirationTimestamp.sec
                     ELSE -1]
                /\ pc' = [pc EXCEPT ![p] = "Println"]
                /\ trace' = [trace EXCEPT ![p].written = out[p], ![p].after = g.data]
                /\ UNCHANGED exitCode
       ELSE /\ Exit(p, 1, "WriteFile")
            /\ UNCHANGED << files, stored >>
  /\ UNCHANGED << build, now, ticks, runs, cacheDir, argv, cachePath, creds,
                  url, out, stdout >>

\* main 168 / runGetToken 154-155: fmt.Println(string(out))
PrintFresh(p) ==
  /\ pc[p] = "Println"
  /\ stdout' = [stdout EXCEPT ![p] = Println(stdout[p], out[p])]
  /\ pc' = [pc EXCEPT ![p] = "exit"]
  /\ exitCode' = [exitCode EXCEPT ![p] = 0]
  /\ trace' = [trace EXCEPT ![p].exitAt = "fresh"]
  /\ UNCHANGED << build, now, ticks, runs, cacheDir, files, stored, argv,
                  cachePath, creds, url, out >>

\* the process is gone; the next invocation starts from nothing
Reap(p) ==
  /\ pc[p] = "exit"
  /\ pc' = [pc EXCEPT ![p] = "idle"]
  /\ argv' = [argv EXCEPT ![p] = NoArgv]
  /\ cachePath' = [cachePath EXCEPT ![p] = NoString]
  /\ creds' = [creds EXCEPT ![p] = << >>]
  /\ url' = [url EXCEPT ![p] = << >>]
  /\ out' = [out EXCEPT ![p] = << >>]
  /\ stdout' = [stdout EXCEPT ![p] = << >>]
  /\ exitCode' = [exitCode EXCEPT ![p] = -1]
  /\ trace' = [trace EXCEPT ![p] = NoTrace]
  /\ UNCHANGED << build, now, ticks, runs, cacheDir, files, stored >>

\* how far the clock moves at once: a tick, a tick more than the margin, a
\* tick less than what is left of a token's life after the margin
Jumps == {1, cacheExpiryPadding * TicksPerSecond + 1,
          (maxTokenDuration - cacheExpiryPadding) * TicksPerSecond - 1}

\* The clock is read by the cache check, by the signer and by time.Now()
\* before the credential is built; time that passes anywhere else passes
\* just as well right before the next of these.
ReadsClock(p) == pc[p] \in {"tryReadValidCache", "Presign", "Marshal"}

Tick ==
  /\ ticks > 0
  /\ \E p \in Procs : ReadsClock(p)
  /\ ticks' = ticks - 1
  /\ \E d \in Jumps : now' = now + d
  /\ UNCHANGED << build, runs, cacheDir, files, stored, pc, argv, cachePath,
                  creds, url, out, stdout, exitCode, trace >>

Step(p) ==
  \/ Start(p)
  \/ KubeCacheFilePath(p)
  \/ TryReadValidCache(p)
  \/ LoadDefaultConfig(p)
  \/ Presign(p)
  \/ Marshal(p)
  \/ Open(p)
  \/ Write(p)
  \/ PrintFresh(p)
  \/ Reap(p)

\* one invocation after the other
Next == Tick \/ Step(1)

\* invocations one after the other, in any environment
Spec == Init /\ [][Next]_vars

\* invocations one after the other, with time to watch the clock
SpecClock == InitClock /\ [][Next]_vars

\* invocations one after the other within one tick of the clock, each step
\* of which is taken in the end: the process is scheduled and every call it
\* makes returns
NextLive == Step(1)

SpecLive == InitLive /\ [][NextLive]_vars /\ WF_vars(NextLive)

\* invocations side by side, within one tick of the clock
NextPar == \E p \in Procs : Step(p)

SpecPar == InitPar /\ [][NextPar]_vars

(***************************************************************************)
(* What the properties read from an invocation's history.                  *)
(***************************************************************************)
\* the invocation has made its cache check
Checked(p) == trace[p].why # ""
\* and tryReadValidCache returned the file's content
Hit(p) == trace[p].why = "valid"
Missed(p) == Checked(p) /\ ~Hit(p)

\* the credential in the file as the cache check found it
Found(p) == Unmarshal(trace[p].observed.data)
FoundExpiry(p) == Parse(Found(p).cred.ExpirationTimestamp)

\* the file could be read and parsed, timestamp included
Parses(p) == ~trace[p].observed.err /\ ~Found(p).err /\ ~FoundExpiry(p).err

\* ... and expired strictly more than the margin after the read
Usable(p) ==
  /\ Parses(p)
  /\ FoundExpiry(p).t > trace[p].readAt + cacheExpiryPadding * TicksPerSecond

\* the invocation went on to issue a credential
WentOn(p) == pc[p] = "LoadDefaultConfig" \/ trace[p].configLoads >= 1

(***************************************************************************)
(* C1.  tryReadValidCache returns the file's content exactly when the file *)
(* is readable, parses, and its expirationTimestamp is strictly more than  *)
(* 30 seconds after the time of the read; at or before now + 30s it        *)
(* returns nothing, however well-formed the file is.                       *)
(***************************************************************************)
C1_ReadValidExactly ==
  \A p \in Procs :
    Checked(p) =>
      /\ Hit(p) <=> Usable(p)
      /\ Hit(p) => stdout[p] = << trace[p].observed.data >>
      /\ ~Hit(p) => pc[p] # "exit" \/ trace[p].exitAt # "hit"

\* a well-formed artifact that expires exactly 30 s after the read is refused
C1_Witness_RefusedAtMargin ==
  \E p \in Procs :
    /\ trace[p].why = "expired"
    /\ FoundExpiry(p).t = trace[p].readAt + cacheExpiryPadding * TicksPerSecond
    /\ Found(p).cred.Token # << >>

(***************************************************************************)
(* C2.  An invocation whose cache check finds an artifact that expires     *)
(* more than 30 seconds in the future prints the file's content as it is,  *)
(* loads no credentials, presigns nothing, and exits with code 0.          *)
(***************************************************************************)
C2_HitEmitsCachedSignsNothing ==
  \A p \in Procs :
    (Checked(p) /\ Usable(p)) =>
      /\ pc[p] = "exit"
      /\ exitCode[p] = 0
      /\ stdout[p] = << files[cachePath[p]].data >>
      /\ trace[p].configLoads = 0
      /\ trace[p].presigns = 0
      /\ url[p] = << >>

\* an invocation has printed the artifact an earlier one issued
C2_Witness_HitOnIssued ==
  \E p \in Procs :
    /\ Hit(p)
    /\ Len(stdout[p]) = 1
    /\ Unmarshal(stdout[p][1]).cred.Token # << >>

(***************************************************************************)
(* C3.  An invocation whose cache check is a miss and whose issuance and   *)
(* write succeed has issued a fresh artifact, the cache file holds that    *)
(* artifact and nothing else, and standard output holds the same content.  *)
(***************************************************************************)
C3_MissIssuesWritesEmitsSame ==
  \A p \in Procs :
    trace[p].exitAt = "fresh" =>
      /\ Missed(p)
      /\ trace[p].presigns = 1
      /\ URLDate(url[p]) = trace[p].signedAt \div TicksPerSecond
      /\ trace[p].readAt <= trace[p].signedAt
      /\ out[p] = MarshalIndent(NewCredential(url[p], trace[p].issuedAt))
      /\ files[cachePath[p]].data = out[p]
      /\ stdout[p] = << files[cachePath[p]].data >>
      /\ exitCode[p] = 0

\* a file that was about to expire has been replaced
C3_Witness_OverwroteExpiring ==
  \E p \in Procs :
    /\ trace[p].exitAt = "fresh"
    /\ trace[p].why = "expired"
    /\ trace[p].prev.exists
    /\ Len(trace[p].prev.data) > 0

(***************************************************************************)
(* C4.  No state of the cache file fails the invocation at the cache       *)
(* check: a missing, unreadable, empty, malformed file or one with an      *)
(* unparseable timestamp is a miss, and the invocation goes on to issue.   *)
(***************************************************************************)
C4_UnusableFileIsAMiss ==
  \A p \in Procs :
    (Checked(p) /\ ~Parses(p)) =>
      /\ ~Hit(p)
      /\ WentOn(p)
      /\ trace[p].exitAt # "tryReadValidCache"

\* an invocation that found an unparseable timestamp is loading credentials
C4_Witness_BadTimestampGoesOn ==
  \E p \in Procs :
    /\ trace[p].why = "parse"
    /\ Found(p).cred.ExpirationTimestamp.layout = "unix"
    /\ trace[p].configLoads = 1
    /\ pc[p] = "Presign"

\* the signed URL in the token of the file as the cache check found it
FoundURL(p) == TokenURL(Found(p).cred.Token)

\* the signed URL is within its validity at the time of the cache check
SignedURLValid(p) ==
  (URLDate(FoundURL(p)) + URLExpires(FoundURL(p))) * TicksPerSecond > trace[p].readAt

(***************************************************************************)
(* C5, as claimed.  Whenever an invocation emits a cached artifact, the    *)
(* signed URL in its token is still within its validity (signing time +    *)
(* 900 s is later), whatever the delay between the signing time and the    *)
(* clock read that gave the stored expirationTimestamp.                    *)
(***************************************************************************)
C5_Claimed_CachedTokenStillSigned ==
  \A p \in Procs :
    (Hit(p) /\ Found(p).cred.Token # << >>) => SignedURLValid(p)

(***************************************************************************)
(* C5, amended.  Whenever an invocation emits a cached artifact that was   *)
(* stamped at most 30 s (the cache margin) after its signing time, the     *)
(* signed URL in its token is still within its validity.  An artifact      *)
(* built at most 30 s after the signing time is stamped at most 930 s      *)
(* after the second of the signing time.                                   *)
(***************************************************************************)
C5_StillSignedIfDelayWithinMargin ==
  /\ \A p \in Procs :
       (/\ Hit(p)
        /\ Found(p).cred.Token # << >>
        /\ Found(p).cred.ExpirationTimestamp.sec - URLDate(FoundURL(p))
             <= maxTokenDuration + cacheExpiryPadding)
       => SignedURLValid(p)
  /\ \A p \in Procs :
       (/\ out[p] # << >>
        /\ trace[p].issuedAt - trace[p].signedAt <= cacheExpiryPadding * TicksPerSecond)
       => Unmarshal(out[p]).cred.ExpirationTimestamp.sec - URLDate(url[p])
            <= maxTokenDuration + cacheExpiryPadding

\* a cached artifact is emitted less than a second before the margin
C5_Witness_EmittedNearMargin ==
  \E p \in Procs :
    /\ Hit(p)
    /\ Found(p).cred.Token # << >>
    /\ Len(stdout[p]) = 1
    /\ Found(p).cred.ExpirationTimestamp.sec - URLDate(FoundURL(p)) <= maxTokenDuration
    /\ FoundExpiry(p).t - trace[p].readAt
         <= (cacheExpiryPadding + 1) * TicksPerSecond

(***************************************************************************)
(* C6, as claimed.  No cache check reads a file that another invocation    *)
(* is in the middle of writing as anything but what the file held before   *)
(* or the complete new content.                                            *)
(***************************************************************************)
C6_Claimed_NoTornRead == \A p \in Procs : ~trace[p].torn

(***************************************************************************)
(* C7, as claimed.  When two invocations for the same path have both       *)
(* missed, issued and finished, each has printed its own complete          *)
(* artifact and exited 0, and the file holds one of the two artifacts in   *)
(* full.                                                                   *)
(***************************************************************************)
C7_Claimed_RaceLeavesOneArtifact ==
  \A p, q \in Procs :
    (/\ p # q
     /\ trace[p].exitAt = "fresh"
     /\ trace[q].exitAt = "fresh"
     /\ cachePath[p] = cachePath[q])
    => /\ stdout[p] = << out[p] >>
       /\ ~Unmarshal(out[p]).err
       /\ exitCode[p] = 0
       /\ files[cachePath[p]].data \in {out[p], out[q]}

(***************************************************************************)
(* C8, as claimed.  No invocation prints an artifact that was issued for   *)
(* another cluster identifier or another profile identifier.               *)
(***************************************************************************)
C8_Claimed_NoArtifactOfAnother ==
  \A p \in Procs :
    (Len(stdout[p]) = 1 /\ Unmarshal(stdout[p][1]).cred.Token # << >>) =>
      LET u == TokenURL(Unmarshal(stdout[p][1]).cred.Token)
      IN  /\ URLProfile(u) = argv[p].profile
          /\ URLCluster(u) \in {argv[p].cluster.val, NoHeader}

(***************************************************************************)
(* C9, as claimed.  kubeCacheFilePath(profile, cluster) of main.go gives   *)
(* distinct paths for distinct identifier pairs.                           *)
(***************************************************************************)
C9_Claimed_PathInjective ==
  \A p \in Procs :
    (build = "main.go" /\ cachePath[p] # NoString) =>
      \A pr \in Profiles, cl \in Clusters :
        kubeCacheFilePath(pr, cl) = cachePath[p]
          => pr = argv[p].profile /\ cl = argv[p].cluster.val

(***************************************************************************)
(* C10, as claimed.  When invocations run one after the other, once one    *)
(* has issued and persisted an artifact, no later invocation for the same  *)
(* path that checks the cache earlier than 30 s before the stored          *)
(* expiration loads credentials or presigns.                               *)
(***************************************************************************)
C10_Claimed_NoRegenerationInWindow ==
  \A p \in Procs :
    (/\ Checked(p)
     /\ trace[p].kept >= 0
     /\ trace[p].readAt < (trace[p].kept - cacheExpiryPadding) * TicksPerSecond)
    => /\ Hit(p)
       /\ trace[p].configLoads = 0
       /\ trace[p].presigns = 0

(***************************************************************************)
(* C11.  An invocation whose AWS_PROFILE is absent or empty exits non-zero *)
(* before it touches the cache or the network: it has made no directory,   *)
(* computed no path, read and written no file, loaded no credentials and   *)
(* signed nothing.                                                         *)
(***************************************************************************)
C11_NoProfileExitsBeforeCacheAndNetwork ==
  \A p \in Procs :
    (pc[p] # "idle" /\ argv[p].profile = NoString) =>
      /\ pc[p] = "exit"
      /\ exitCode[p] > 0
      /\ trace[p].mkdirs = 0
      /\ cachePath[p] = NoString
      /\ trace[p].why = ""
      /\ trace[p].prev = NoFile
      /\ trace[p].written = << >>
      /\ trace[p].configLoads = 0
      /\ trace[p].presigns = 0

\* an invocation with everything but the profile has exited with 1, and the
\* cache directory is still missing
C11_Witness_NoProfileNoDirectory ==
  \E p \in Procs :
    /\ pc[p] = "exit"
    /\ argv[p].profile = NoString
    /\ argv[p].cluster.val # NoString
    /\ argv[p].region.val # NoString
    /\ trace[p].exitAt = "args"
    /\ exitCode[p] = 1
    /\ cacheDir = "absent"

(***************************************************************************)
(* C12, as claimed.  An invocation given an empty cluster identifier or an *)
(* empty region exits non-zero before any storage and any network          *)
(* activity: it makes no directory, checks no cache, loads no credentials  *)
(* and signs nothing.                                                      *)
(***************************************************************************)
C12_Claimed_EmptyInputRefused ==
  \A p \in Procs :
    (/\ pc[p] # "idle"
     /\ argv[p].cluster.val = NoString \/ argv[p].region.val = NoString)
    => /\ pc[p] = "exit"
       /\ exitCode[p] > 0
       /\ trace[p].mkdirs = 0
       /\ trace[p].why = ""
       /\ trace[p].configLoads = 0
       /\ trace[p].presigns = 0

(***************************************************************************)
(* C13.  When the cache write fails after a successful issuance, the       *)
(* invocation exits non-zero and prints nothing; an invocation that has    *)
(* issued prints only what it has written to the cache file before.        *)
(***************************************************************************)
C13_WriteFailureEmitsNothing ==
  \A p \in Procs :
    /\ trace[p].exitAt = "WriteFile" =>
         /\ pc[p] = "exit"
         /\ exitCode[p] > 0
         /\ stdout[p] = << >>
    /\ (trace[p].presigns >= 1 /\ stdout[p] # << >>) =>
         /\ trace[p].written = out[p]
         /\ stdout[p] = << out[p] >>

\* the write failed after the file was opened: the artifact was built and
\* nothing was printed
C13_Witness_WriteFailedAfterIssue ==
  \E p \in Procs :
    /\ trace[p].exitAt = "WriteFile"
    /\ trace[p].presigns = 1
    /\ out[p] # << >>
    /\ trace[p].prev # NoFile
    /\ files[cachePath[p]].data = << >>
    /\ stdout[p] = << >>
    /\ exitCode[p] = 1

(***************************************************************************)
(* C14.  When credential resolution or the signing call fails, the         *)
(* invocation exits non-zero, having called each at most once, written     *)
(* nothing and printed nothing, and the cache file is as the cache check   *)
(* found it.  No invocation calls the signing capability twice.            *)
(***************************************************************************)
C14_IssuanceFailureIsFinal ==
  \A p \in Procs :
    /\ trace[p].configLoads <= 1
    /\ trace[p].presigns <= 1
    /\ trace[p].exitAt \in {"LoadDefaultConfig", "Presign"} =>
         /\ pc[p] = "exit"
         /\ exitCode[p] > 0
         /\ trace[p].prev = NoFile
         /\ trace[p].written = << >>
         /\ out[p] = << >>
         /\ stdout[p] = << >>
         /\ files[cachePath[p]] = trace[p].seen

\* the signing call failed over an expired artifact of an earlier
\* invocation, which is still in the file
C14_Witness_PresignFailedOverOldArtifact ==
  \E p \in Procs :
    /\ trace[p].exitAt = "Presign"
    /\ trace[p].why = "expired"
    /\ trace[p].configLoads = 1
    /\ trace[p].presigns = 1
    /\ files[cachePath[p]].data # << >>
    /\ files[cachePath[p]] = trace[p].seen

BuiltExpiry(p) == Unmarshal(out[p]).cred.ExpirationTimestamp

(***************************************************************************)
(* C16, as claimed.  Every freshly issued artifact has an                  *)
(* expirationTimestamp that is, also after formatting to second            *)
(* precision, never less than the request time plus 900 seconds, and the   *)
(* signed URL asks for a validity of the same 900 seconds.                 *)
(***************************************************************************)
C16_Claimed_ExpiryNeverLess ==
  \A p \in Procs :
    out[p] # << >> =>
      /\ ~Parse(BuiltExpiry(p)).err
      /\ Parse(BuiltExpiry(p)).t >= Add(trace[p].signedAt, maxTokenDuration)
      /\ URLExpires(url[p]) = maxTokenDuration

(***************************************************************************)
(* C16, amended.  Every freshly issued artifact has an RFC3339             *)
(* expirationTimestamp equal to the clock read after signing plus 900      *)
(* seconds, cut down to the whole second: never more than that and less    *)
(* by under a second, and never less than the signed URL's own date        *)
(* (X-Amz-Date) plus 900 seconds; the signed URL asks for a validity       *)
(* (X-Amz-Expires) of the same 900 seconds.                                *)
(***************************************************************************)
C16_ExpiryIsClockPlusMaxCutToSecond ==
  \A p \in Procs :
    out[p] # << >> =>
      LET e == BuiltExpiry(p)
          exact == Add(trace[p].issuedAt, maxTokenDuration)
      IN  /\ e.layout = "RFC3339"
          /\ e.sec = exact \div TicksPerSecond
          /\ Parse(e).t <= exact
          /\ exact - Parse(e).t < TicksPerSecond
          /\ e.sec >= URLDate(url[p]) + maxTokenDuration
          /\ URLExpires(url[p]) = maxTokenDuration

\* an artifact signed and built within the same half second past the full
\* second: its expirationTimestamp is earlier than that time plus 900 s
C16_Witness_SubSecondLost ==
  \E p \in Procs :
    /\ out[p] # << >>
    /\ trace[p].issuedAt = trace[p].signedAt
    /\ trace[p].issuedAt % TicksPerSecond # 0
    /\ Parse(BuiltExpiry(p)).t < Add(trace[p].issuedAt, maxTokenDuration)
    /\ trace[p].exitAt = "fresh"

\* an artifact with everything in it: the two markers, a set
\* expirationTimestamp and a non-empty token
FullyPopulated(data) ==
  LET u == Unmarshal(data)
  IN  /\ ~u.err
      /\ u.cred.APIVersion = "client.authentication.k8s.io/v1beta1"
      /\ u.cred.Kind = "ExecCredential"
      /\ u.cred.ExpirationTimestamp # NoTimestamp
      /\ u.cred.Token # << >>

(***************************************************************************)
(* C17, as claimed.  Every artifact an invocation prints or writes to the  *)
(* cache file, fresh or from the cache, is fully populated.                *)
(***************************************************************************)
C17_Claimed_NoPartialArtifact ==
  \A p \in Procs :
    /\ \A i \in 1 .. Len(stdout[p]) : FullyPopulated(stdout[p][i])
    /\ trace[p].written # << >> => FullyPopulated(trace[p].written)

(***************************************************************************)
(* C18, as claimed.  After every successful cache write the cache file has *)
(* mode 0600, whether the write created it or overwrote a file that had    *)
(* another mode.                                                           *)
(***************************************************************************)
C18_Claimed_OwnerOnlyAfterWrite ==
  \A p \in Procs :
    (pc[p] \in {"Println", "exit"} /\ trace[p].written # << >>) =>
      files[cachePath[p]].mode = "0600"

\* how far an invocation has come: START is 1, CHECK_CACHE is 2, ISSUE is
\* 3 to 5, PERSIST is 6 and 7, EMIT_FRESH is 8, the end is 9
Rank(at) ==
  CASE at = "idle" -> 0
    [] at = "kubeCacheFilePath" -> 1
    [] at = "tryReadValidCache" -> 2
    [] at = "LoadDefaultConfig" -> 3
    [] at = "Presign" -> 4
    [] at = "Marshal" -> 5
    [] at = "OpenFile" -> 6
    [] at = "Write" -> 7
    [] at = "Println" -> 8
    [] at = "exit" -> 9

C20_TokenIsPrefixPlusRawBase64 ==
  \A p \in Procs :
    out[p] # << >> =>
      LET tok == Unmarshal(out[p]).cred.Token
      IN  /\ Len(tok) >= 1
          /\ tok[1] = Cell("chr", "k8s-aws-v1.", 0)
          /\ \A i \in 2 .. Len(tok) :
                tok[i].k = "chr" /\ tok[i].s = "" /\ tok[i].n \in 0 .. 63
          /\ Len(tok) - 1 = (4 * Len(url[p]) + 2) \div 3
          /\ TokenURL(tok) = url[p]

\* a token was printed whose URL has a length that is no multiple of three
\* bytes, which a padding encoder would pad
C20_Witness_UnpaddedPrinted ==
  \E p \in Procs :
    /\ trace[p].exitAt = "fresh"
    /\ Len(url[p]) % 3 # 0
    /\ (Len(Unmarshal(stdout[p][1]).cred.Token) - 1) % 4 # 0
    /\ TokenURL(Unmarshal(stdout[p][1]).cred.Token) = url[p]

C22_HitLeavesFileUnchanged ==
  /\ [](\A p \in Procs :
          trace[p].exitAt = "hit" =>
            /\ trace[p].seen.exists
            /\ files[cachePath[p]] = trace[p].seen
            /\ trace[p].written = << >>
            /\ trace[p].prev = NoFile)
  /\ [][/\ \A q \in Paths : files[q].exists => files'[q].exists
        /\ \A q \in Paths :
             files'[q] # files[q] =>
               \E p \in Procs :
                 /\ pc[p] \in {"OpenFile", "Write"}
                 /\ cachePath[p] = q
                 /\ Missed(p)
                 /\ url[p] # << >>
                 /\ out[p] # << >>
        /\ \A p \in Procs :
             (trace'[p].exitAt = "hit" /\ trace[p].exitAt # "hit") =>
               files' = files]_vars

\* a hit on the artifact an earlier invocation persisted: the file is there
\* as the cache check saw it, mode and content
C22_Witness_HitFileUntouched ==
  \E p \in Procs :
    /\ trace[p].exitAt = "hit"
    /\ trace[p].seen.exists
    /\ files[cachePath[p]] = trace[p].seen
    /\ trace[p].kept >= 0
    /\ stored[cachePath[p]] = trace[p].kept

(***************************************************************************)
(* C23, as claimed.  With invocations one after the other and a clock that *)
(* never goes back, every completed overwrite of a cache file that held a  *)
(* parseable artifact leaves one whose expirationTimestamp is strictly     *)
(* later.                                                                  *)
(***************************************************************************)
C23_Claimed_OverwriteStrictlyLater ==
  \A p \in Procs :
    LET old == Unmarshal(trace[p].prev.data)
        new == Unmarshal(trace[p].written)
    IN  ( /\ trace[p].written # << >>
          /\ trace[p].prev.exists
          /\ ~old.err
          /\ ~Parse(old.cred.ExpirationTimestamp).err ) =>
          Parse(new.cred.ExpirationTimestamp).t
            > Parse(old.cred.ExpirationTimestamp).t

====
